---------------------------- MODULE Spec2Model ----------------------------
(* A model of jack_large_number_ports.cpp: a JACK client that registers     *)
(* num_ports input and num_ports output ports, copies every input buffer to *)
(* the output buffer of the same index in its process callback, sleeps, and *)
(* tears down.  Three execution contexts are modelled: the main thread      *)
(* (main), the server-driven process callback (process) and the server's    *)
(* shutdown notification (jack_shutdown).  The JACK server is the           *)
(* environment: it decides whether a call succeeds, hands out port handles  *)
(* and buffers, and may shut down at any time.                              *)
EXTENDS Integers, Sequences, FiniteSets, TLC

(***************************************************************************)
(* Bounds.  The source compiles num_ports = 1024 in (line 30); the model    *)
(* scales it down, keeping it above 10 so that two-digit port names occur.  *)
(***************************************************************************)
num_ports == 11
MaxFrames == 2
MaxCycles == 2
MaxSeed == 2

NumHandles == 2 * num_ports
Handles == 1..NumHandles
Frames == 1..MaxFrames
Seeds == 1..MaxSeed

JackPortIsInput == "JackPortIsInput"
JackPortIsOutput == "JackPortIsOutput"

VARIABLES
    pc,              \* position of the main thread in main()
    i,               \* loop counter of the input registration loop
    o,               \* loop counter of the output registration loop
    jack_client,     \* "null" | "open" | "active" | "inactive" | "closed"
    process_cb,      \* jack_set_process_callback has been called
    shutdown_cb,     \* jack_on_shutdown has been called
    input_ports,     \* vector<jack_port_t*> input_ports
    output_ports,    \* vector<jack_port_t*> output_ports
    server_ports,    \* server side: <<name, flags>> of every registered port, by handle
    server_up,       \* the server has not shut down
    calls,           \* every JACK API call of the main thread: <<fn, name, flags, ok>>
    exited,          \* the process has terminated
    exit_status,     \* its exit status, meaningful once exited
    shutdown_delivered, \* jack_shutdown has been invoked
    buf,             \* server-owned port buffers: handle -> frame -> sample
    buf_before,      \* buf as handed to the running/last process() invocation
    cb_pc,           \* "idle" | "loop" : position of the process callback
    cb_port,         \* loop variable `port` of process()
    cb_nframes,      \* nframes of the running/last process() invocation
    cb_ret           \* return values of the process() invocations so far

vars == <<pc, i, o, jack_client, process_cb, shutdown_cb, input_ports,
          output_ports, server_ports, server_up, calls, exited, exit_status,
          shutdown_delivered, buf, buf_before, cb_pc, cb_port, cb_nframes,
          cb_ret>>

mainVars == <<pc, i, o, jack_client, process_cb, shutdown_cb, input_ports,
              output_ports, server_ports, calls>>
cbVars == <<buf, buf_before, cb_pc, cb_port, cb_nframes, cb_ret>>
exitVars == <<exited, exit_status>>

(***************************************************************************)
(* Pure helpers.                                                           *)
(***************************************************************************)

\* operator<<(ostream&, uint32_t): the decimal digits of n, most significant first.
DigitChar(d) == <<"0", "1", "2", "3", "4", "5", "6", "7", "8", "9">>[d + 1]

RECURSIVE Decimal(_)
Decimal(n) == IF n < 10 THEN <<DigitChar(n)>>
              ELSE Decimal(n \div 10) \o <<DigitChar(n % 10)>>

\* A port name numbered from one instead of zero.
PortName_OneBased(prefix, n) == <<prefix>> \o Decimal(n + 1)

\* ss << "input-" << i; port_name(ss.str()): the characters of the port name.
PortName(prefix, n) == <<prefix>> \o Decimal(n)

\* A copy that stops one frame short of nframes.
std_copy_short(src, n, dst) ==
    [f \in DOMAIN dst |-> IF f <= n - 1 THEN src[f] ELSE dst[f]]

\* std::copy(&in[0], &in[nframes], &out[0]): dst after the copy (frames are 1-based here).
std_copy(src, n, dst) ==
    [f \in DOMAIN dst |-> IF f <= n THEN src[f] ELSE dst[f]]

\* vector::operator[] at zero-based index k.  Out of range it is undefined
\* behaviour: the read may yield any handle.
PortAt(ports, k) == IF k < Len(ports) THEN {ports[k + 1]} ELSE Handles

\* exit(status)
exit(status) == exited' = TRUE /\ exit_status' = status

\* What the server puts into the buffer of port h at frame f in a cycle.
Signal(seed, h, f) == (seed * NumHandles + h) * MaxFrames + f

\* The buffers at the start of a cycle: the server has filled every input port.
ServerFill(seed) ==
    [h \in Handles |->
        IF h <= Len(server_ports) /\ server_ports[h][2] = JackPortIsInput
        THEN [f \in Frames |-> Signal(seed, h, f)]
        ELSE buf[h]]

Call(fn, name, flags, ok) == calls' = Append(calls, <<fn, name, flags, ok>>)

Running == ~exited

(***************************************************************************)
(* Initial state: the globals after static initialisation, main not begun. *)
(***************************************************************************)
Init ==
    /\ pc = "open"
    /\ i = 0
    /\ o = 0
    /\ jack_client = "null"
    /\ process_cb = FALSE
    /\ shutdown_cb = FALSE
    /\ input_ports = <<>>
    /\ output_ports = <<>>
    /\ server_ports = <<>>
    /\ server_up = TRUE
    /\ calls = <<>>
    /\ exited = FALSE
    /\ exit_status = 0
    /\ shutdown_delivered = FALSE
    /\ buf = [h \in Handles |-> [f \in Frames |-> 0]]
    /\ buf_before = [h \in Handles |-> [f \in Frames |-> 0]]
    /\ cb_pc = "idle"
    /\ cb_port = 0
    /\ cb_nframes = 0
    /\ cb_ret = <<>>

(***************************************************************************)
(* The main thread.                                                        *)
(***************************************************************************)

\* jack_client_open returns a client.
OpenOk ==
    /\ Running /\ pc = "open" /\ server_up
    /\ jack_client' = "open"
    /\ Call("jack_client_open", <<>>, "", TRUE)
    /\ pc' = "set_process_callback"
    /\ UNCHANGED <<i, o, process_cb, shutdown_cb, input_ports, output_ports,
                   server_ports, server_up, shutdown_delivered>>
    /\ UNCHANGED exitVars /\ UNCHANGED cbVars

\* A failed open that is not checked: main carries on with a null client.
OpenFailed_FallThrough ==
    /\ Running /\ pc = "open"
    /\ Call("jack_client_open", <<>>, "", FALSE)
    /\ pc' = "set_process_callback"
    /\ UNCHANGED <<i, o, jack_client, process_cb, shutdown_cb, input_ports,
                   output_ports, server_ports, server_up, shutdown_delivered>>
    /\ UNCHANGED exitVars /\ UNCHANGED cbVars

\* jack_client_open returns NULL: report and exit(1).
OpenFailed ==
    /\ Running /\ pc = "open"
    /\ Call("jack_client_open", <<>>, "", FALSE)
    /\ exit(1)
    /\ pc' = "done"
    /\ UNCHANGED <<i, o, jack_client, process_cb, shutdown_cb, input_ports,
                   output_ports, server_ports, server_up, shutdown_delivered>>
    /\ UNCHANGED cbVars

\* jack_set_process_callback( jack_client, process, 0 )
SetProcessCallback ==
    /\ Running /\ pc = "set_process_callback"
    /\ process_cb' = TRUE
    /\ Call("jack_set_process_callback", <<>>, "", TRUE)
    /\ pc' = "on_shutdown"
    /\ UNCHANGED <<i, o, jack_client, shutdown_cb, input_ports, output_ports,
                   server_ports, server_up, shutdown_delivered>>
    /\ UNCHANGED exitVars /\ UNCHANGED cbVars

\* jack_on_shutdown( jack_client, jack_shutdown, 0 ), then the sample rate is printed.
OnShutdown ==
    /\ Running /\ pc = "on_shutdown"
    /\ shutdown_cb' = TRUE
    /\ Call("jack_on_shutdown", <<>>, "", TRUE)
    /\ pc' = "register_inputs"
    /\ UNCHANGED <<i, o, jack_client, process_cb, input_ports, output_ports,
                   server_ports, server_up, shutdown_delivered>>
    /\ UNCHANGED exitVars /\ UNCHANGED cbVars

\* An input loop that stops one port early.
InputLoopCond_Short == i < num_ports - 1

\* i < num_ports
InputLoopCond == i < num_ports

\* One iteration of the input loop in which jack_port_register succeeds.
RegisterInputOk ==
    /\ Running /\ pc = "register_inputs" /\ InputLoopCond
    /\ server_up /\ jack_client # "null" /\ Len(server_ports) < NumHandles
    /\ server_ports' = Append(server_ports, <<PortName("input-", i), JackPortIsInput>>)
    /\ Call("jack_port_register", PortName("input-", i), JackPortIsInput, TRUE)
    /\ input_ports' = Append(input_ports, Len(server_ports) + 1)
    /\ i' = i + 1
    /\ UNCHANGED <<pc, o, jack_client, process_cb, shutdown_cb, output_ports,
                   server_up, shutdown_delivered>>
    /\ UNCHANGED exitVars /\ UNCHANGED cbVars

\* A failed input registration that is skipped instead of being fatal.
RegisterInputFailed_Continue ==
    /\ Running /\ pc = "register_inputs" /\ InputLoopCond
    /\ Call("jack_port_register", PortName("input-", i), JackPortIsInput, FALSE)
    /\ i' = i + 1
    /\ UNCHANGED <<pc, o, jack_client, process_cb, shutdown_cb, input_ports,
                   output_ports, server_ports, server_up, shutdown_delivered>>
    /\ UNCHANGED exitVars /\ UNCHANGED cbVars

\* One iteration of the input loop in which jack_port_register returns nullptr.
RegisterInputFailed ==
    /\ Running /\ pc = "register_inputs" /\ InputLoopCond
    /\ Call("jack_port_register", PortName("input-", i), JackPortIsInput, FALSE)
    /\ exit(1)
    /\ pc' = "done"
    /\ UNCHANGED <<i, o, jack_client, process_cb, shutdown_cb, input_ports,
                   output_ports, server_ports, server_up, shutdown_delivered>>
    /\ UNCHANGED cbVars

\* The input loop ends.
InputLoopExit ==
    /\ Running /\ pc = "register_inputs" /\ ~InputLoopCond
    /\ pc' = "register_outputs"
    /\ UNCHANGED <<i, o, jack_client, process_cb, shutdown_cb, input_ports,
                   output_ports, server_ports, server_up, calls, shutdown_delivered>>
    /\ UNCHANGED exitVars /\ UNCHANGED cbVars

\* An output loop that stops one port early.
OutputLoopCond_Short == o < num_ports - 1

\* o < num_ports
OutputLoopCond == o < num_ports

\* One iteration of the output loop in which jack_port_register succeeds.
RegisterOutputOk ==
    /\ Running /\ pc = "register_outputs" /\ OutputLoopCond
    /\ server_up /\ jack_client # "null" /\ Len(server_ports) < NumHandles
    /\ server_ports' = Append(server_ports, <<PortName("output-", o), JackPortIsOutput>>)
    /\ Call("jack_port_register", PortName("output-", o), JackPortIsOutput, TRUE)
    /\ output_ports' = Append(output_ports, Len(server_ports) + 1)
    /\ o' = o + 1
    /\ UNCHANGED <<pc, i, jack_client, process_cb, shutdown_cb, input_ports,
                   server_up, shutdown_delivered>>
    /\ UNCHANGED exitVars /\ UNCHANGED cbVars

\* A failed output registration that is skipped instead of being fatal.
RegisterOutputFailed_Continue ==
    /\ Running /\ pc = "register_outputs" /\ OutputLoopCond
    /\ Call("jack_port_register", PortName("output-", o), JackPortIsOutput, FALSE)
    /\ o' = o + 1
    /\ UNCHANGED <<pc, i, jack_client, process_cb, shutdown_cb, input_ports,
                   output_ports, server_ports, server_up, shutdown_delivered>>
    /\ UNCHANGED exitVars /\ UNCHANGED cbVars

\* One iteration of the output loop in which jack_port_register returns nullptr.
RegisterOutputFailed ==
    /\ Running /\ pc = "register_outputs" /\ OutputLoopCond
    /\ Call("jack_port_register", PortName("output-", o), JackPortIsOutput, FALSE)
    /\ exit(1)
    /\ pc' = "done"
    /\ UNCHANGED <<i, o, jack_client, process_cb, shutdown_cb, input_ports,
                   output_ports, server_ports, server_up, shutdown_delivered>>
    /\ UNCHANGED cbVars

\* The output loop ends.
OutputLoopExit ==
    /\ Running /\ pc = "register_outputs" /\ ~OutputLoopCond
    /\ pc' = "activate"
    /\ UNCHANGED <<i, o, jack_client, process_cb, shutdown_cb, input_ports,
                   output_ports, server_ports, server_up, calls, shutdown_delivered>>
    /\ UNCHANGED exitVars /\ UNCHANGED cbVars

\* jack_activate returns 0.
ActivateOk ==
    /\ Running /\ pc = "activate" /\ server_up /\ jack_client = "open"
    /\ jack_client' = "active"
    /\ Call("jack_activate", <<>>, "", TRUE)
    /\ pc' = "sleep"
    /\ UNCHANGED <<i, o, process_cb, shutdown_cb, input_ports, output_ports,
                   server_ports, server_up, shutdown_delivered>>
    /\ UNCHANGED exitVars /\ UNCHANGED cbVars

\* A failed activation reported with exit status 0.
ActivateFailed_ExitZero ==
    /\ Running /\ pc = "activate"
    /\ Call("jack_activate", <<>>, "", FALSE)
    /\ exit(0)
    /\ pc' = "done"
    /\ UNCHANGED <<i, o, jack_client, process_cb, shutdown_cb, input_ports,
                   output_ports, server_ports, server_up, shutdown_delivered>>
    /\ UNCHANGED cbVars

\* jack_activate returns non-zero: report and exit(1).
ActivateFailed ==
    /\ Running /\ pc = "activate"
    /\ Call("jack_activate", <<>>, "", FALSE)
    /\ exit(1)
    /\ pc' = "done"
    /\ UNCHANGED <<i, o, jack_client, process_cb, shutdown_cb, input_ports,
                   output_ports, server_ports, server_up, shutdown_delivered>>
    /\ UNCHANGED cbVars

\* A teardown that closes the connection without deactivating first.
SleepElapsed_SkipDeactivate ==
    /\ Running /\ pc = "sleep"
    /\ pc' = "close"
    /\ UNCHANGED <<i, o, jack_client, process_cb, shutdown_cb, input_ports,
                   output_ports, server_ports, server_up, calls, shutdown_delivered>>
    /\ UNCHANGED exitVars /\ UNCHANGED cbVars

\* std::this_thread::sleep_for( std::chrono::seconds(60) ) returns.
SleepElapsed ==
    /\ Running /\ pc = "sleep"
    /\ pc' = "deactivate"
    /\ UNCHANGED <<i, o, jack_client, process_cb, shutdown_cb, input_ports,
                   output_ports, server_ports, server_up, calls, shutdown_delivered>>
    /\ UNCHANGED exitVars /\ UNCHANGED cbVars

\* jack_deactivate( jack_client ): the return value is ignored.
Deactivate ==
    /\ Running /\ pc = "deactivate"
    /\ jack_client' = "inactive"
    /\ Call("jack_deactivate", <<>>, "", server_up)
    /\ pc' = "close"
    /\ UNCHANGED <<i, o, process_cb, shutdown_cb, input_ports, output_ports,
                   server_ports, server_up, shutdown_delivered>>
    /\ UNCHANGED exitVars /\ UNCHANGED cbVars

\* jack_client_close( jack_client ): the return value is ignored.
Close ==
    /\ Running /\ pc = "close"
    /\ jack_client' = "closed"
    /\ Call("jack_client_close", <<>>, "", server_up)
    /\ pc' = "exit"
    /\ UNCHANGED <<i, o, process_cb, shutdown_cb, input_ports, output_ports,
                   server_ports, server_up, shutdown_delivered>>
    /\ UNCHANGED exitVars /\ UNCHANGED cbVars

\* exit( 0 )
ExitZero ==
    /\ Running /\ pc = "exit"
    /\ exit(0)
    /\ pc' = "done"
    /\ UNCHANGED <<i, o, jack_client, process_cb, shutdown_cb, input_ports,
                   output_ports, server_ports, server_up, calls, shutdown_delivered>>
    /\ UNCHANGED cbVars

main ==
    \/ OpenOk \/ OpenFailed \/ SetProcessCallback \/ OnShutdown
    \/ RegisterInputOk \/ RegisterInputFailed \/ InputLoopExit
    \/ RegisterOutputOk \/ RegisterOutputFailed \/ OutputLoopExit
    \/ ActivateOk \/ ActivateFailed
    \/ SleepElapsed \/ Deactivate \/ Close \/ ExitZero

(***************************************************************************)
(* The process callback, run by the server once per cycle while the client *)
(* is active.                                                              *)
(***************************************************************************)

\* The server starts a cycle: it fills the input buffers and calls process(nframes, 0).
ProcessBegin(nframes, seed) ==
    /\ Running /\ server_up /\ process_cb /\ jack_client = "active"
    /\ cb_pc = "idle" /\ Len(cb_ret) < MaxCycles
    /\ buf' = ServerFill(seed)
    /\ buf_before' = ServerFill(seed)
    /\ cb_nframes' = nframes
    /\ cb_port' = 0
    /\ cb_pc' = "loop"
    /\ UNCHANGED cb_ret
    /\ UNCHANGED mainVars /\ UNCHANGED exitVars
    /\ UNCHANGED <<server_up, shutdown_delivered>>

\* One iteration of the loop of process(): port < num_ports.
ProcessCopy ==
    /\ Running /\ cb_pc = "loop" /\ cb_port < num_ports
    /\ \E in \in PortAt(input_ports, cb_port), out \in PortAt(output_ports, cb_port) :
          buf' = [buf EXCEPT ![out] = std_copy(buf[in], cb_nframes, buf[out])]
    /\ cb_port' = cb_port + 1
    /\ UNCHANGED <<buf_before, cb_pc, cb_nframes, cb_ret>>
    /\ UNCHANGED mainVars /\ UNCHANGED exitVars
    /\ UNCHANGED <<server_up, shutdown_delivered>>

\* The loop of process() ends: return 0.
ProcessReturn ==
    /\ Running /\ cb_pc = "loop" /\ ~(cb_port < num_ports)
    /\ cb_ret' = Append(cb_ret, 0)
    /\ cb_pc' = "idle"
    /\ UNCHANGED <<buf, buf_before, cb_port, cb_nframes>>
    /\ UNCHANGED mainVars /\ UNCHANGED exitVars
    /\ UNCHANGED <<server_up, shutdown_delivered>>

process ==
    \/ \E nframes \in 0..MaxFrames, seed \in Seeds : ProcessBegin(nframes, seed)
    \/ ProcessCopy
    \/ ProcessReturn

(***************************************************************************)
(* Server shutdown.  JACK calls the registered shutdown callback of a      *)
(* connected client; a client that has registered none, or has closed its  *)
(* connection, is not called.                                              *)
(***************************************************************************)

\* A shutdown callback that returns without terminating the process.
jack_shutdown_Returns == UNCHANGED exitVars

\* void jack_shutdown (void *arg) { exit (1); }
jack_shutdown == exit(1)

\* The server shuts down (or disconnects the client) and the callback is invoked.
ServerShutdownNotified ==
    /\ Running /\ server_up
    /\ jack_client \in {"open", "active", "inactive"} /\ shutdown_cb
    /\ server_up' = FALSE
    /\ shutdown_delivered' = TRUE
    /\ jack_shutdown
    /\ UNCHANGED mainVars /\ UNCHANGED cbVars

\* The server shuts down while the client has no callback registered yet or
\* has already closed its connection: nothing is called.
ServerShutdownUnnoticed ==
    /\ Running /\ server_up
    /\ \/ jack_client = "open" /\ ~shutdown_cb
       \/ jack_client = "closed"
    /\ server_up' = FALSE
    /\ UNCHANGED shutdown_delivered
    /\ UNCHANGED mainVars /\ UNCHANGED cbVars /\ UNCHANGED exitVars

server ==
    \/ ServerShutdownNotified
    \/ ServerShutdownUnnoticed

Next == main \/ process \/ server

Spec == Init /\ [][Next]_vars

\* The main thread is scheduled and every call it makes returns.
LiveSpec == Spec /\ WF_vars(main)

(***************************************************************************)
(* Vocabulary of the properties.                                           *)
(***************************************************************************)

\* The position of the first call of fn in the call log, 0 when never called.
CallIndex(fn) ==
    IF \E k \in DOMAIN calls : calls[k][1] = fn
    THEN CHOOSE k \in DOMAIN calls :
            calls[k][1] = fn /\ \A j \in 1..(k - 1) : calls[j][1] # fn
    ELSE 0

Called(fn) == CallIndex(fn) > 0

IsRegister(c) == c[1] = "jack_port_register"

\* The successful registrations of one direction, in call order.
Registered(flags) ==
    SelectSeq(calls, LAMBDA c : IsRegister(c) /\ c[3] = flags /\ c[4])

\* The positions in the call log of failed registrations.
FailedRegistrations == {k \in DOMAIN calls : IsRegister(calls[k]) /\ ~calls[k][4]}

\* Reading a port name back: the number its decimal digits denote.
DigitValue(ch) == CHOOSE d \in 0..9 : DigitChar(d) = ch

RECURSIVE DecimalValue(_)
DecimalValue(digits) ==
    IF digits = <<>> THEN 0
    ELSE 10 * DecimalValue(SubSeq(digits, 1, Len(digits) - 1))
         + DigitValue(digits[Len(digits)])

IsNamed(name, prefix, n) ==
    /\ Len(name) >= 2
    /\ name[1] = prefix
    /\ Tail(name)[1] # "0" \/ Len(name) = 2
    /\ DecimalValue(Tail(name)) = n

IsPrefix(s, t) == Len(s) <= Len(t) /\ SubSeq(t, 1, Len(s)) = s

SetupCalls == <<"jack_client_open", "jack_set_process_callback", "jack_on_shutdown">>

(***************************************************************************)
(* C1.  Whenever jack_activate has been called, exactly num_ports input    *)
(* and num_ports output ports were registered before it, the k-th input    *)
(* registration named input-k and the k-th output registration named       *)
(* output-k (k from 0), and no registration follows the activation.        *)
(***************************************************************************)
C1_PortsRegisteredBeforeActivate ==
    Called("jack_activate") =>
        /\ Len(Registered(JackPortIsInput)) = num_ports
        /\ Len(Registered(JackPortIsOutput)) = num_ports
        /\ Len(server_ports) = 2 * num_ports
        /\ \A k \in 1..num_ports :
              /\ IsNamed(Registered(JackPortIsInput)[k][2], "input-", k - 1)
              /\ IsNamed(Registered(JackPortIsOutput)[k][2], "output-", k - 1)
              /\ server_ports[input_ports[k]] =
                    <<Registered(JackPortIsInput)[k][2], JackPortIsInput>>
              /\ server_ports[output_ports[k]] =
                    <<Registered(JackPortIsOutput)[k][2], JackPortIsOutput>>
        /\ \A k \in DOMAIN calls :
              IsRegister(calls[k]) => k < CallIndex("jack_activate")

\* The client has been activated and idles, a port named input-10 among its ports.
C1_Witness ==
    /\ pc = "sleep" /\ jack_client = "active"
    /\ calls[Len(calls)] = <<"jack_activate", <<>>, "", TRUE>>
    /\ server_ports[input_ports[num_ports]][1] = PortName("input-", num_ports - 1)

(***************************************************************************)
(* C2.  When an invocation of process(nframes) has returned, every output  *)
(* buffer holds in its first nframes frames the frames of the input buffer *)
(* of the same index, every other buffer position is as it was when the    *)
(* invocation began, and every invocation returned 0.                      *)
(***************************************************************************)
C2_ProcessCopiesInputToOutput ==
    (cb_pc = "idle" /\ Len(cb_ret) > 0) =>
        /\ \A r \in DOMAIN cb_ret : cb_ret[r] = 0
        /\ Len(input_ports) = num_ports /\ Len(output_ports) = num_ports
        /\ \A k \in 1..num_ports : \A f \in 1..cb_nframes :
              /\ buf[output_ports[k]][f] = buf[input_ports[k]][f]
              /\ buf[output_ports[k]][f] = buf_before[input_ports[k]][f]
        /\ \A h \in Handles : \A f \in Frames :
              (f > cb_nframes \/ \A k \in 1..num_ports : output_ports[k] # h)
                  => buf[h][f] = buf_before[h][f]

\* A second cycle of one frame has returned: the outputs hold the first frame
\* of this cycle's input and a stale second frame from the cycle before.
C2_Witness ==
    /\ cb_pc = "idle" /\ Len(cb_ret) = 2 /\ cb_nframes = 1
    /\ buf[output_ports[1]][1] = buf[input_ports[1]][1]
    /\ buf[output_ports[1]][2] # buf[input_ports[1]][2]
    /\ buf[output_ports[1]][2] # 0

(***************************************************************************)
(* C3.  Once a port registration has failed, the process has exited with   *)
(* status 1, the failed call is the last call the client made (no further  *)
(* registration, no jack_activate), and process() was never invoked.       *)
(***************************************************************************)
C3_RegistrationFailureIsFatal ==
    (FailedRegistrations # {}) =>
        /\ exited /\ exit_status = 1
        /\ FailedRegistrations = {Len(calls)}
        /\ ~Called("jack_activate")
        /\ jack_client = "open"
        /\ cb_ret = <<>> /\ cb_pc = "idle"
        /\ Len(server_ports) = Len(input_ports) + Len(output_ports)

\* The registration of an output port other than the first has failed.
C3_Witness ==
    /\ exited
    /\ FailedRegistrations # {}
    /\ calls[Len(calls)][3] = JackPortIsOutput
    /\ Len(output_ports) >= 1

(***************************************************************************)
(* C4.  If jack_client_open fails, the process has exited with status 1    *)
(* having made no other call: no port registered, no callback registered,  *)
(* no activation.                                                          *)
(***************************************************************************)
C4_OpenFailureIsFatal ==
    (calls # <<>> /\ ~calls[1][4]) =>
        /\ exited /\ exit_status = 1
        /\ Len(calls) = 1
        /\ ~process_cb /\ ~shutdown_cb
        /\ server_ports = <<>> /\ input_ports = <<>> /\ output_ports = <<>>
        /\ jack_client = "null"

\* jack_client_open has failed.
C4_Witness ==
    /\ calls = <<<<"jack_client_open", <<>>, "", FALSE>>>>
    /\ exited

LifecycleOrder ==
    /\ Called("jack_deactivate") =>
          /\ Called("jack_activate")
          /\ calls[CallIndex("jack_activate")][4]
          /\ CallIndex("jack_activate") < CallIndex("jack_deactivate")
    /\ Called("jack_client_close") =>
          /\ Called("jack_deactivate")
          /\ CallIndex("jack_deactivate") < CallIndex("jack_client_close")
    /\ (exited /\ exit_status = 0) =>
          /\ Called("jack_client_close")
          /\ CallIndex("jack_client_close") = Len(calls)
          /\ CallIndex("jack_deactivate") = Len(calls) - 1
          /\ CallIndex("jack_activate") = Len(calls) - 2

SomeCallFailed ==
    \E k \in DOMAIN calls :
        /\ calls[k][1] \in {"jack_client_open", "jack_port_register", "jack_activate"}
        /\ ~calls[k][4]

NormalCompletion ==
    /\ Len(calls) = 2 * num_ports + 6
    /\ \A k \in DOMAIN calls : calls[k][4]
    /\ \A k \in 1..3 : calls[k][1] = SetupCalls[k]
    /\ \A k \in 1..num_ports :
          /\ calls[3 + k][1] = "jack_port_register"
          /\ calls[3 + k][3] = JackPortIsInput
          /\ calls[3 + num_ports + k][1] = "jack_port_register"
          /\ calls[3 + num_ports + k][3] = JackPortIsOutput
    /\ calls[2 * num_ports + 4][1] = "jack_activate"
    /\ calls[2 * num_ports + 5][1] = "jack_deactivate"
    /\ calls[2 * num_ports + 6][1] = "jack_client_close"
    /\ Len(input_ports) = num_ports /\ Len(output_ports) = num_ports
    /\ ~shutdown_delivered

C7_ExitStatus ==
    exited =>
        /\ exit_status \in {0, 1}
        /\ exit_status = 0 <=> NormalCompletion
        /\ exit_status = 1 <=> (SomeCallFailed \/ shutdown_delivered)

\* Both statuses occur; this is the activation failure.
C7_Witness ==
    /\ exited /\ exit_status = 1
    /\ calls[Len(calls)] = <<"jack_activate", <<>>, "", FALSE>>

(***************************************************************************)
(* C8.  The port vectors change only in steps of the main thread taken     *)
(* before jack_activate is called; while process() runs both hold          *)
(* num_ports handles, so each index it reads is in bounds.                 *)
(***************************************************************************)
PortsWrittenOnlyDuringSetup ==
    (input_ports' # input_ports \/ output_ports' # output_ports) =>
        /\ main
        /\ jack_client = "open"
        /\ ~Called("jack_activate")
        /\ cb_ret = <<>> /\ cb_pc = "idle"

C8_CallbackReadsStableVectors ==
    /\ [](cb_pc = "loop" =>
             /\ Called("jack_activate")
             /\ Len(input_ports) = num_ports
             /\ Len(output_ports) = num_ports
             /\ cb_port < num_ports =>
                   (cb_port < Len(input_ports) /\ cb_port < Len(output_ports)))
    /\ [][PortsWrittenOnlyDuringSetup]_vars

\* process() is about to read the last index of both vectors.
C8_Witness ==
    /\ cb_pc = "loop" /\ cb_port = num_ports - 1
    /\ jack_client = "active"
    /\ Len(input_ports) = num_ports

(***************************************************************************)
(* C9.  From the end of the output registration loop on, both vectors      *)
(* have length num_ports; and no step ever removes or replaces an element  *)
(* of either vector.                                                       *)
(***************************************************************************)
AfterSetup ==
    \/ pc \in {"activate", "sleep", "deactivate", "close", "exit"}
    \/ Called("jack_activate")

C9_VectorsKeepLength ==
    /\ [](AfterSetup =>
             /\ Len(input_ports) = num_ports
             /\ Len(output_ports) = Len(input_ports))
    /\ [][/\ IsPrefix(input_ports, input_ports')
          /\ IsPrefix(output_ports, output_ports')]_vars

\* Teardown is under way with both vectors full.
C9_Witness ==
    /\ pc = "exit" /\ jack_client = "closed"
    /\ Len(input_ports) = num_ports /\ Len(output_ports) = num_ports

(***************************************************************************)
(* C10.  Every input registration call precedes every output registration *)
(* call, the k-th call of a direction carries index k; output_ports is     *)
(* non-empty only if input_ports holds num_ports handles; and after a      *)
(* failed registration of input-k the process has exited with exactly k    *)
(* input ports and no output port registered.                              *)
(***************************************************************************)
RegisterCalls(flags) == SelectSeq(calls, LAMBDA c : IsRegister(c) /\ c[3] = flags)

C10_InputsBeforeOutputs ==
    /\ Len(output_ports) > 0 => Len(input_ports) = num_ports
    /\ \A j, k \in DOMAIN calls :
          (/\ IsRegister(calls[j]) /\ calls[j][3] = JackPortIsInput
           /\ IsRegister(calls[k]) /\ calls[k][3] = JackPortIsOutput) => j < k
    /\ \A k \in DOMAIN RegisterCalls(JackPortIsInput) :
          IsNamed(RegisterCalls(JackPortIsInput)[k][2], "input-", k - 1)
    /\ \A k \in DOMAIN RegisterCalls(JackPortIsOutput) :
          IsNamed(RegisterCalls(JackPortIsOutput)[k][2], "output-", k - 1)
    /\ \A k \in FailedRegistrations :
          calls[k][3] = JackPortIsInput =>
              /\ exited
              /\ Len(input_ports) = DecimalValue(Tail(calls[k][2]))
              /\ Len(Registered(JackPortIsInput)) = DecimalValue(Tail(calls[k][2]))
              /\ Len(output_ports) = 0
              /\ Len(Registered(JackPortIsOutput)) = 0
              /\ Len(server_ports) = Len(input_ports)

\* The registration of input-2 has failed.
C10_Witness ==
    /\ exited
    /\ calls[Len(calls)] = <<"jack_port_register", PortName("input-", 2), JackPortIsInput, FALSE>>
    /\ Len(input_ports) = 2

=============================================================================
